---- MODULE Spec2Model ----
(***************************************************************************)
(* mups: a process-inspection tool reading /proc/<pid>/stat and            *)
(* /proc/<pid>/cmdline (src/src/main.rs).                                  *)
(*                                                                         *)
(* A byte or character is a one-character string; "NUL" names byte 0 and   *)
(* "xFF" names a byte that is not valid UTF-8.  A text or byte buffer is a *)
(* sequence of these.  A file is [ok, data]: ok = FALSE when it cannot be  *)
(* opened or fully read.  Standard output is taken to accept every write   *)
(* in full.                                                                *)
(***************************************************************************)
EXTENDS Integers, Sequences, FiniteSets, TLC

VARIABLES procs,     \* the process table the kernel exposes under /proc
          rawfile,   \* a status file handed to a single lookup (ParseSpec)
          cmd,       \* the subcommand
          argv,      \* the text of the -p argument
          stdin,     \* the whole of standard input
          pc,        \* where the invocation is
          pid,       \* run_whatps / run_args: pid
          pids,      \* run_whatps: pids
          overflow,  \* pushes onto pids beyond MaxChain elements, which are not recorded:
                     \* 0 for none, else 1 or 2 for an odd or even number of them
          idx,       \* run_whatps: position of the display pass in pids.iter().rev()
          out,       \* standard output: one record per println! / cmdline_to_stdout
          stat,      \* the result of the last ProcStat::read_pid
          fault      \* the message of the panic that ended the invocation

vars == <<procs, rawfile, cmd, argv, stdin, pc, pid, pids, overflow, idx, out, stat, fault>>

(***************************************************************************)
(* Bounds                                                                  *)
(***************************************************************************)
MaxPid == 3
MaxCmdLen == 5
MaxStdinLen == 4
MaxCommLen == 2
MaxTextLen == 3
MaxArgs == 3
MaxArgLen == 1
MaxTokens == 3
MaxTokenLen == 1

MaxChain == MaxPid + 2

Pids == 0..MaxPid
ProcIds == 1..MaxPid

SeqsUpTo(S, n) == UNION {[1..k -> S] : k \in 0..n}

(***************************************************************************)
(* Text and byte helpers                                                   *)
(***************************************************************************)
NUL == "NUL"
BadByte == "xFF"

\* " \\\n    "
separator == <<" ", "\\", "\n", " ", " ", " ", " ">>

DigitChars == <<"0", "1", "2", "3", "4", "5", "6", "7", "8", "9">>

RECURSIVE Digits(_)
\* format!("{}", n) of an unsigned integer
Digits(n) == IF n < 10 THEN <<DigitChars[n + 1]>>
             ELSE Digits(n \div 10) \o <<DigitChars[(n % 10) + 1]>>

IsDigit(c) == \E d \in 1..10 : DigitChars[d] = c
DigitVal(c) == (CHOOSE d \in 1..10 : DigitChars[d] = c) - 1

U32MaxDigits == <<"4", "2", "9", "4", "9", "6", "7", "2", "9", "5">>

RECURSIVE StripZeros(_)
StripZeros(s) == IF Len(s) > 0 /\ s[1] = "0" THEN StripZeros(Tail(s)) ELSE s

RECURSIVE LexGreater(_, _)
\* a > b for two digit strings of the same length
LexGreater(a, b) == IF Len(a) = 0 THEN FALSE
                    ELSE IF DigitVal(a[1]) # DigitVal(b[1]) THEN DigitVal(a[1]) > DigitVal(b[1])
                    ELSE LexGreater(Tail(a), Tail(b))

RECURSIVE DigitsValueTo(_, _)
\* the value of the first n digits of s
DigitsValueTo(s, n) == IF n = 0 THEN 0 ELSE 10 * DigitsValueTo(s, n - 1) + DigitVal(s[n])

DigitsValue(s) == DigitsValueTo(s, Len(s))

\* str::parse::<u32>(): -1 stands for Err.  An optional leading '+', then one
\* or more decimal digits, the value at most 2^32 - 1.
parse_u32(s) ==
    LET digits == IF Len(s) > 0 /\ s[1] = "+" THEN Tail(s) ELSE s
        sig == StripZeros(digits)
    IN IF Len(digits) = 0 THEN -1
       ELSE IF \E i \in 1..Len(digits) : ~IsDigit(digits[i]) THEN -1
       ELSE IF Len(sig) > 10 \/ (Len(sig) = 10 /\ LexGreater(sig, U32MaxDigits)) THEN -1
       ELSE DigitsValue(sig)

\* str::find / a first match: 0 stands for None
find(s, c) == IF \E i \in 1..Len(s) : s[i] = c
              THEN CHOOSE i \in 1..Len(s) : s[i] = c /\ \A j \in 1..(i - 1) : s[j] # c
              ELSE 0

\* a first match where the last one is meant
rfind_first(s, c) == IF \E i \in 1..Len(s) : s[i] = c
                     THEN CHOOSE i \in 1..Len(s) : s[i] = c /\ \A j \in 1..(i - 1) : s[j] # c
                     ELSE 0

\* str::rfind: 0 stands for None
rfind(s, c) == IF \E i \in 1..Len(s) : s[i] = c
               THEN CHOOSE i \in 1..Len(s) : s[i] = c /\ \A j \in (i + 1)..Len(s) : s[j] # c
               ELSE 0

\* the one element of a singleton set: The({e(x) : x \in {v}}) is e with x bound
\* to the value of v, evaluated once
The(S) == CHOOSE x \in S : TRUE

\* str::split(' ') and <[u8]>::split(|b| *b == 0): the pieces between the
\* delimiters, always at least one piece
split(s, d) ==
    The({LET n == Cardinality(D)
             cut(k) == IF k = 0 THEN 0
                       ELSE IF k = n + 1 THEN Len(t) + 1
                       ELSE CHOOSE i \in D : Cardinality({j \in D : j < i}) = k - 1
         IN [k \in 1..(n + 1) |-> SubSeq(t, cut(k - 1) + 1, cut(k) - 1)]
         : t \in {s}, D \in {{i \in 1..Len(s) : s[i] = d}}})

RECURSIVE join(_, _)
\* [&str]::join(sep)
join(ps, sep) == IF Len(ps) = 0 THEN <<>>
                 ELSE IF Len(ps) = 1 THEN ps[1]
                 ELSE ps[1] \o sep \o join(Tail(ps), sep)

(***************************************************************************)
(* Files                                                                   *)
(***************************************************************************)
NoFile == [ok |-> FALSE, data |-> <<>>]
File(d) == [ok |-> TRUE, data |-> d]

NoProc == [alive |-> FALSE, ppid |-> 0, state |-> "-", cmdline |-> <<>>]

\* The command name the kernel reports for a process.
Comm(p) == CASE p = 1 -> <<"i", "n", "i", "t">>
             [] p = 2 -> <<"a", " ", "b">>
             [] p = 3 -> <<"a", "(", "b", ")">>
             [] OTHER -> <<")", " ", "(">>

\* The kernel's /proc/<pid>/stat line: pid (comm) state ppid ...
StatText(p, comm, state, ppid) ==
    Digits(p) \o <<" ", "(">> \o comm \o <<")", " ">> \o state \o <<" ">> \o Digits(ppid)
        \o <<" ", "0", "\n">>

Alive(ps, p) == p \in DOMAIN ps /\ ps[p].alive

\* /proc/<p>/stat
StatFile(ps, p) == IF Alive(ps, p)
                   THEN File(StatText(p, Comm(p), <<ps[p].state>>, ps[p].ppid))
                   ELSE NoFile

\* /proc/<p>/cmdline
CmdlineFile(ps, p) == IF Alive(ps, p) THEN File(ps[p].cmdline) ELSE NoFile

\* Option<String>: read_to_string fails on bytes that are not valid UTF-8
string_from_path(f) == IF ~f.ok THEN NoFile
                       ELSE IF \E i \in 1..Len(f.data) : f.data[i] = BadByte THEN NoFile
                       ELSE File(f.data)

\* an unreadable file taken for an empty one
bytes_from_path_empty(f) == File(f.data)

\* Option<Vec<u8>>
bytes_from_path(f) == IF ~f.ok THEN NoFile ELSE File(f.data)

(***************************************************************************)
(* ProcStat::read_pid                                                      *)
(***************************************************************************)
NoneStat == [tag |-> "None", comm |-> <<>>, pid |-> 0, ppid |-> 0, state |-> "-"]
PanicStat == [tag |-> "Panic", comm |-> <<>>, pid |-> 0, ppid |-> 0, state |-> "-"]
SomeStat(c, p, pp, st) == [tag |-> "Some", comm |-> c, pid |-> p, ppid |-> pp, state |-> st]

\* ProcStat::read_pid on the content f of /proc/<p>/stat
ParseStat(f, p) ==
    The({IF ~s.ok THEN NoneStat
         ELSE The({IF lparen = 0 \/ rparen = 0 THEN PanicStat
                   ELSE IF lparen > rparen \/ rparen = Len(s.data) THEN PanicStat
                   ELSE The({IF Len(pieces) = 0 THEN NoneStat
                             ELSE IF Len(pieces[1]) = 0 THEN PanicStat
                             ELSE IF Len(pieces) < 2 THEN PanicStat
                             ELSE IF parse_u32(pieces[2]) < 0 THEN PanicStat
                             ELSE SomeStat(comm, p, parse_u32(pieces[2]), pieces[1][1])
                             : comm \in {SubSeq(s.data, lparen + 1, rparen - 1)},
                               pieces \in {split(SubSeq(s.data, rparen + 2, Len(s.data)), " ")}})
                   : lparen \in {find(s.data, "(")}, rparen \in {rfind(s.data, ")")}})
         : s \in {string_from_path(f)}})

read_pid(ps, p) == ParseStat(StatFile(ps, p), p)

(***************************************************************************)
(* cmdline_to_stdout, format_arglist, prettify                             *)
(***************************************************************************)
MsgPid == "PID has to be an integer"
MsgExist == "requested process has to exist"
MsgSlice == "the slice bound cmdline.len() - 1 underflows"
MsgArg == "need to have some argument"
MsgUnwrap == "called Option::unwrap() on a None value"
MsgStdin == "stdin is not valid text"

\* the terminator not dropped
cmdline_pieces_keep(bytes) == split(bytes, NUL)

\* the pieces cmdline_to_stdout iterates over, for a non-empty buffer
cmdline_pieces(bytes) == split(SubSeq(bytes, 1, Len(bytes) - 1), NUL)

\* what cmdline_to_stdout writes for its pieces
rendered(pieces) == join(pieces, separator) \o <<"\n">>

\* an empty buffer guarded against: no argument, only the newline
cmdline_to_stdout_guarded(f) ==
    IF ~f.ok THEN [fault |-> MsgExist, data |-> <<>>]
    ELSE IF Len(f.data) = 0 THEN [fault |-> "", data |-> <<"\n">>]
    ELSE [fault |-> "", data |-> join(split(SubSeq(f.data, 1, Len(f.data) - 1), NUL), separator)
                                     \o <<"\n">>]

\* cmdline_to_stdout on the content f of /proc/<pid>/cmdline:
\* [fault |-> the panic message or "", data |-> the bytes written]
cmdline_to_stdout(f) ==
    LET cmdline == bytes_from_path(f)
    IN IF ~cmdline.ok THEN [fault |-> MsgExist, data |-> <<>>]
       ELSE IF Len(cmdline.data) = 0 THEN [fault |-> MsgSlice, data |-> <<>>]
       ELSE IF Len(cmdline_pieces(cmdline.data)) = 0 THEN [fault |-> MsgArg, data |-> <<>>]
       ELSE [fault |-> "", data |-> rendered(cmdline_pieces(cmdline.data))]

format_arglist(args) == join(args, separator)

\* empty tokens dropped, as split_whitespace would
prettify_skip_empty(stuff_in) ==
    join(SelectSeq(split(stuff_in, " "), LAMBDA t : Len(t) > 0), separator)

prettify(stuff_in) == join(split(stuff_in, " "), separator)

\* println!("\npid {} [{}]:", pid, state)
header(p, state) == <<"\n", "p", "i", "d", " ">> \o Digits(p) \o <<" ", "[", state, "]", ":", "\n">>

\* no substitute for a failed lookup
shown_state_raw(r) == r.state

\* the state the display pass shows for a lookup result
shown_state(r) == IF r.tag = "Some" THEN r.state ELSE "?"

\* Vec::push, recorded up to MaxChain elements
push(v, x) == IF Len(v) < MaxChain THEN Append(v, x) ELSE v

\* the walk stopping at pid 0 instead of pid 1
loop_test_zero(p) == p # 0

\* while pid != 1
loop_test(p) == p # 1

\* a failed lookup not leaving the loop
walk_continues_always(r) == TRUE

\* match ProcStat::read_pid(pid) { Some(s) => s, None => break }
walk_continues(r) == r.tag # "None"

\* the chain displayed in construction order
rev_forward(v) == v

\* pids.iter().rev()
rev(v) == [i \in 1..Len(v) |-> v[Len(v) + 1 - i]]

(***************************************************************************)
(* The invocation                                                          *)
(***************************************************************************)
Bytes == {"a", NUL, BadByte}

RunProc(pp) == [alive |-> TRUE, ppid |-> pp, state |-> "S",
                cmdline |-> <<"a", NUL, "-", "b", NUL>>]
ZombieProc(pp) == [alive |-> TRUE, ppid |-> pp, state |-> "Z", cmdline |-> <<>>]

ProcRecords == {NoProc} \cup {RunProc(pp) : pp \in Pids} \cup {ZombieProc(pp) : pp \in Pids}

ArgTexts == {Digits(p) : p \in Pids} \cup {<<"x">>}

\* args reads one file only: the table holds pid 1 alone, with any command line
ArgsTables == {[p \in ProcIds |-> IF p = 1
                                  THEN [alive |-> TRUE, ppid |-> 0, state |-> "S", cmdline |-> c]
                                  ELSE NoProc] : c \in SeqsUpTo(Bytes, MaxCmdLen)}
              \cup {[p \in ProcIds |-> NoProc]}

Start == /\ pids = <<>>
         /\ overflow = 0
         /\ idx = 0
         /\ out = <<>>
         /\ stat = NoneStat
         /\ fault = ""

Init == /\ Start
        /\ rawfile = NoFile
        /\ stdin = <<>>
        /\ pc = "main"
        /\ pid = 0
        /\ argv \in ArgTexts
        /\ \/ cmd = "whatps" /\ procs \in [ProcIds -> ProcRecords]
           \/ cmd = "args" /\ procs \in ArgsTables

Panic(msg) == pc' = "panic" /\ fault' = msg

\* main, and run_args / run_whatps / run_prettify up to their first read
Main ==
    /\ pc = "main"
    /\ IF cmd = "prettify"
       THEN /\ pc' = "prettify"
            /\ UNCHANGED <<pid, pids, fault>>
       ELSE IF parse_u32(argv) < 0
       THEN /\ Panic(MsgPid)
            /\ UNCHANGED <<pid, pids>>
       ELSE /\ pid' = parse_u32(argv)
            /\ pids' = IF cmd = "whatps" THEN <<parse_u32(argv)>> ELSE pids
            /\ pc' = IF cmd = "whatps" THEN "walk" ELSE "cmdline"
            /\ fault' = fault
    /\ UNCHANGED <<procs, rawfile, cmd, argv, stdin, overflow, idx, out, stat>>

\* run_whatps: one evaluation of the while loop (its test, and its body)
WalkStep ==
    /\ pc = "walk"
    /\ \E r \in {read_pid(procs, pid)} :
         LET leave == /\ pc' = IF overflow # 0 THEN "cut" ELSE "display"
                      /\ idx' = 1
                      /\ UNCHANGED <<pid, pids, overflow, fault>>
         IN IF ~loop_test(pid)
            THEN leave /\ stat' = stat
            ELSE /\ stat' = r
                 /\ IF r.tag = "Panic"
                    THEN Panic(MsgUnwrap) /\ UNCHANGED <<pid, pids, overflow, idx>>
                    ELSE IF ~walk_continues(r) THEN leave
                    ELSE /\ pid' = r.ppid
                         /\ pids' = push(pids, r.ppid)
                         /\ overflow' = IF Len(pids) < MaxChain THEN overflow
                                         ELSE IF overflow = 1 THEN 2 ELSE 1
                         /\ UNCHANGED <<pc, idx, fault>>
    /\ UNCHANGED <<procs, rawfile, cmd, argv, stdin, out>>

\* run_whatps: the display loop's test, lookup and println!
DisplayStep ==
    /\ pc = "display"
    /\ IF idx > Len(pids)
       THEN pc' = "done" /\ UNCHANGED <<out, stat, fault>>
       ELSE LET r == read_pid(procs, rev(pids)[idx])
            IN /\ stat' = r
               /\ IF r.tag = "Panic"
                  THEN Panic(MsgUnwrap) /\ out' = out
                  ELSE /\ out' = Append(out, [src |-> "println", pid |-> rev(pids)[idx],
                                              data |-> header(rev(pids)[idx], shown_state(r))])
                       /\ pc' = "cmdline"
                       /\ fault' = fault
    /\ UNCHANGED <<procs, rawfile, cmd, argv, stdin, pid, pids, overflow, idx>>

\* the pid cmdline_to_stdout is called with
Target == IF cmd = "args" THEN pid ELSE rev(pids)[idx]

\* a call of cmdline_to_stdout, from run_args or from the display loop
CmdlineStep ==
    /\ pc = "cmdline"
    /\ LET w == cmdline_to_stdout(CmdlineFile(procs, Target))
       IN IF w.fault # ""
          THEN Panic(w.fault) /\ UNCHANGED <<out, idx>>
          ELSE /\ out' = Append(out, [src |-> "cmdline_to_stdout", pid |-> Target,
                                      data |-> w.data])
               /\ pc' = IF cmd = "args" THEN "done" ELSE "display"
               /\ idx' = IF cmd = "args" THEN idx ELSE idx + 1
               /\ fault' = fault
    /\ UNCHANGED <<procs, rawfile, cmd, argv, stdin, pid, pids, overflow, stat>>

Next == Main \/ WalkStep \/ DisplayStep \/ CmdlineStep

Spec == Init /\ [][Next]_vars

(***************************************************************************)
(* The process table changing under a running invocation                   *)
(***************************************************************************)
\* a process exits and is reaped: its /proc entry disappears
Exit(p) == /\ pc \in {"walk", "display", "cmdline"}
           /\ procs[p].alive
           /\ procs' = [procs EXCEPT ![p] = NoProc]
           /\ UNCHANGED <<rawfile, cmd, argv, stdin, pc, pid, pids, overflow, idx, out, stat, fault>>

\* a process exits and waits to be reaped: state Z, an empty command line
Zombify(p) == /\ pc \in {"walk", "display", "cmdline"}
              /\ procs[p].alive
              /\ procs[p].state # "Z"
              /\ procs' = [procs EXCEPT ![p] = ZombieProc(procs[p].ppid)]
              /\ UNCHANGED <<rawfile, cmd, argv, stdin, pc, pid, pids, overflow, idx, out, stat, fault>>

Env == \E p \in ProcIds : Exit(p) \/ Zombify(p)

RaceNext == Next \/ Env

RaceSpec == Init /\ [][RaceNext]_vars

(***************************************************************************)
(* The ancestor walk alone, over every assignment of parents               *)
(***************************************************************************)
WalkInit == /\ Start
            /\ rawfile = NoFile
            /\ stdin = <<>>
            /\ pc = "main"
            /\ pid = 0
            /\ cmd = "whatps"
            /\ argv \in ArgTexts
            /\ procs \in [ProcIds -> {NoProc} \cup {RunProc(pp) : pp \in Pids}]

WalkNext == Main \/ WalkStep

\* the invocation is single-threaded and every read completes: it keeps stepping
WalkSpec == WalkInit /\ [][WalkNext]_vars /\ WF_vars(WalkNext)

(***************************************************************************)
(* prettify: the whole of standard input, reformatted                      *)
(***************************************************************************)
StdinBytes == {"a", "-", " ", BadByte}

PrettyInit == /\ Start
              /\ rawfile = NoFile
              /\ pc = "main"
              /\ pid = 0
              /\ cmd = "prettify"
              /\ argv = <<>>
              /\ procs = [p \in ProcIds |-> NoProc]
              /\ stdin \in SeqsUpTo(StdinBytes, MaxStdinLen)

\* run_prettify: read_to_string(stdin).unwrap(), then println!("{}", prettify(..))
RunPrettify ==
    /\ pc = "prettify"
    /\ IF ~string_from_path(File(stdin)).ok
       THEN Panic(MsgStdin) /\ out' = out
       ELSE /\ out' = Append(out, [src |-> "println", pid |-> 0,
                                   data |-> prettify(stdin) \o <<"\n">>])
            /\ pc' = "done"
            /\ fault' = fault
    /\ UNCHANGED <<procs, rawfile, cmd, argv, stdin, pid, pids, overflow, idx, stat>>

PrettyNext == Main \/ RunPrettify

PrettySpec == PrettyInit /\ [][PrettyNext]_vars

(***************************************************************************)
(* ProcStat::read_pid on one status file of any content                    *)
(***************************************************************************)
CommBytes == {"a", " ", "(", ")"}
TextBytes == {"(", ")", " ", "S", "1"}

\* well-formed fields, and fields a status line should never hold
StateFields == {<<"S">>, <<"R", "x">>}
PpidValues == {0, 1, 456}
PpidFields == {Digits(v) : v \in PpidValues}
BadPpidFields == {<<>>, <<"x">>, <<"-", "1">>, <<"1", "x">>, <<"+">>,
                  <<"4", "2", "9", "4", "9", "6", "7", "2", "9", "6">>}
Rests == {<<>>, <<" ", "0", "\n">>}
LookupPids == {5, 123}

\* pid (comm) state ppid rest
Line(p, comm, state, ppid, rest) ==
    Digits(p) \o <<" ", "(">> \o comm \o <<")", " ">> \o state \o <<" ">> \o ppid \o rest

WellFormedLines(p) == {Line(p, c, st, pp, r) : c \in SeqsUpTo(CommBytes, MaxCommLen),
                                               st \in StateFields, pp \in PpidFields, r \in Rests}

\* the parent id not an unsigned integer
BadPpidLines(p) == {Line(p, c, st, pp, r) : c \in SeqsUpTo(CommBytes, MaxCommLen),
                                            st \in StateFields, pp \in BadPpidFields, r \in Rests}

\* the line ends after the state field, after the ')' or after the space behind it
CutLines(p) == UNION {{Digits(p) \o <<" ", "(">> \o c \o <<")", " ">> \o <<"S">>,
                       Digits(p) \o <<" ", "(">> \o c \o <<")", " ">>,
                       Digits(p) \o <<" ", "(">> \o c \o <<")">>,
                       Digits(p) \o <<" ", "(">> \o c \o <<")", " ", " ">> \o Digits(1)}
                      : c \in SeqsUpTo(CommBytes, MaxCommLen)}

\* bytes that are not valid text
BinaryLines(p) == {Line(p, <<BadByte>>, <<"S">>, Digits(1), <<>>)}

\* "123 (my proc) S 456 7\n" and "5 (a(b)) R 1 0\n"
Example1 == <<"1", "2", "3", " ", "(", "m", "y", " ", "p", "r", "o", "c", ")", " ", "S", " ",
              "4", "5", "6", " ", "7", "\n">>
Example2 == <<"5", " ", "(", "a", "(", "b", ")", ")", " ", "R", " ", "1", " ", "0", "\n">>

\* a parent id with the sign str::parse accepts
SignedLines(p) == {Line(p, <<"a">>, <<"S">>, <<"+", "7">>, <<>>)}

StatTexts(p) == WellFormedLines(p) \cup {Example1, Example2} \cup SignedLines(p) \cup BadPpidLines(p) \cup CutLines(p) \cup BinaryLines(p)
                    \cup SeqsUpTo(TextBytes, MaxTextLen)

ParseInit == /\ Start
             /\ stdin = <<>>
             /\ cmd = "lookup"
             /\ argv = <<>>
             /\ procs = [p \in ProcIds |-> NoProc]
             /\ pid \in LookupPids
             /\ pc = "lookup"
             /\ rawfile \in {NoFile} \cup {File(t) : t \in StatTexts(pid)}

\* one call of ProcStat::read_pid(pid), /proc/<pid>/stat holding rawfile
Lookup ==
    /\ pc = "lookup"
    /\ stat' = ParseStat(rawfile, pid)
    /\ IF ParseStat(rawfile, pid).tag = "Panic"
       THEN Panic(MsgUnwrap)
       ELSE pc' = "done" /\ fault' = fault
    /\ UNCHANGED <<procs, rawfile, cmd, argv, stdin, pid, pids, overflow, idx, out>>

ParseNext == Lookup

ParseSpec == ParseInit /\ [][ParseNext]_vars

(***************************************************************************)
(* Claims                                                                  *)
(***************************************************************************)
Last(v) == v[Len(v)]

\* the requested pid, as the user wrote it
Requested == parse_u32(argv)

\* run_whatps has left its while loop (pids is never changed afterwards)
WalkLeft == cmd = "whatps" /\ pc \in {"display", "cmdline", "done", "panic"} /\ pids # <<>>

RECURSIVE SubstAll(_, _, _)
\* s with every occurrence of the byte c replaced by the bytes r
SubstAll(s, c, r) == IF Len(s) = 0 THEN <<>>
                     ELSE (IF s[1] = c THEN r ELSE <<s[1]>>) \o SubstAll(Tail(s), c, r)

\* the argument list as the specification prints it: the terminator dropped,
\* every remaining NUL replaced by the continuation separator, then a newline
ArgListText(c) == SubstAll(SubSeq(c, 1, Len(c) - 1), NUL, separator) \o <<"\n">>

\* C1 as stated: once the walk loop has exited, the chain starts with the
\* requested pid and ends with pid 1 or with a pid whose status record could
\* be resolved.
C1_EndsResolved ==
    WalkLeft => /\ pids[1] = Requested
                /\ (Last(pids) = 1 \/ Alive(procs, Last(pids)))

\* C1 amended: once the walk loop has exited, the chain starts with the
\* requested pid; every element but the last was resolved, is not 1, and is
\* followed by its parent id; the last element is pid 1 or the pid whose
\* resolution failed.
C1_EndsAtRootOrFailure ==
    WalkLeft => /\ pids[1] = Requested
                /\ (Last(pids) = 1 \/ ~Alive(procs, Last(pids)))
                /\ \A i \in 1..(Len(pids) - 1) :
                       /\ pids[i] # 1
                       /\ Alive(procs, pids[i])
                       /\ pids[i + 1] = procs[pids[i]].ppid

\* the walk resolved two records and stopped at a third pid that is not 1
C1_Witness == WalkLeft /\ pc = "display" /\ idx = 1 /\ Len(pids) = 3 /\ Last(pids) # 1

RECURSIVE Ancestor(_, _, _)
\* the k-th id on the parent chain of p, or -1 when the chain ends before it
Ancestor(ps, p, k) == IF k = 0 THEN p
                      ELSE IF p = 1 \/ ~Alive(ps, p) THEN -1
                      ELSE Ancestor(ps, ps[p].ppid, k - 1)

\* following parent ids from p never comes back to an id already visited
NoCycleFrom(ps, p) == \A i \in 0..MaxPid : \A j \in (i + 1)..(MaxPid + 1) :
                          Ancestor(ps, p, j) # -1 => Ancestor(ps, p, i) # Ancestor(ps, p, j)

Walking == pc \in {"main", "walk"}

\* C2 as stated: for every starting pid and every assignment of parent ids,
\* the walk loop eventually exits.
C2_AlwaysExits == <>(~Walking)

\* C2 amended: the walk loop eventually exits whenever following parent ids
\* from the starting pid never revisits a pid.
C2_ExitsUnlessCycle == (pc = "main" /\ NoCycleFrom(procs, Requested)) ~> (~Walking)

\* the loop exited by a failed resolution, two parents up from the start
C2_Witness == pc = "display" /\ Len(pids) = 3 /\ Last(pids) # 1 /\ overflow = 0

\* out[k] is the header of pid p / the argument list of pid p
IsHeader(w, p) == w.src = "println" /\ w.pid = p
IsArgList(w, p) == w.src = "cmdline_to_stdout" /\ w.pid = p

\* C3 as stated: whatps emits one header per chain element, root-most first,
\* each immediately followed by that process's argument list.
C3_HeaderPerElement ==
    (WalkLeft /\ pc \in {"done", "panic"}) =>
        /\ Len(out) = 2 * Len(pids)
        /\ \A k \in 1..Len(pids) :
               /\ IsHeader(out[2 * k - 1], pids[Len(pids) + 1 - k])
               /\ IsArgList(out[2 * k], pids[Len(pids) + 1 - k])

\* C3 amended: the headers come in the reverse of construction order, each
\* immediately followed by that process's argument list, up to the first
\* element whose command line is unreadable or empty: there the invocation
\* ends right after the header.  Without such an element there is exactly
\* one header per chain element.
C3_HeadersUntilFailure ==
    cmd = "whatps" =>
        /\ \A k \in 1..Len(out) :
               LET p == pids[Len(pids) + 1 - ((k + 1) \div 2)]
               IN IF k % 2 = 1
                  THEN /\ IsHeader(out[k], p)
                       /\ out[k].data = header(p, IF Alive(procs, p) THEN procs[p].state ELSE "?")
                  ELSE /\ IsArgList(out[k], p)
                       /\ Alive(procs, p) /\ procs[p].cmdline # <<>>
                       /\ out[k].data = ArgListText(procs[p].cmdline)
        /\ pc = "done" => Len(out) = 2 * Len(pids)
        /\ (pc = "panic" /\ pids # <<>>) =>
               /\ Len(out) % 2 = 1
               /\ LET p == Last(out).pid
                  IN ~Alive(procs, p) \/ procs[p].cmdline = <<>>
        /\ pc = "cmdline" => Len(out) % 2 = 1
        /\ pc = "display" => Len(out) = 2 * (idx - 1)

\* a chain of three displayed in full: 1, then its child, then the requested pid
C3_Witness == /\ cmd = "whatps" /\ pc = "done" /\ Len(pids) = 3 /\ Len(out) = 6
              /\ out[1].pid = 1 /\ out[5].pid = Requested

\* the state character a header shows: "\npid <id> [<state>]:\n"
ShownState(w) == w.data[Len(w.data) - 3]

\* C4: in the display pass, with processes exiting in between, every lookup
\* is followed by a header showing the state the process has at that moment,
\* or '?' exactly when it cannot be resolved, and a failed resolution ends
\* neither the walk nor the display pass by itself.
C4_FreshState ==
    [][/\ (pc = "display" /\ idx <= Len(pids) /\ pc' # pc) =>
              LET p == pids[Len(pids) + 1 - idx]
              IN /\ pc' = "cmdline"
                 /\ Len(out') = Len(out) + 1
                 /\ IsHeader(Last(out'), p)
                 /\ ShownState(Last(out')) = IF Alive(procs, p) THEN procs[p].state ELSE "?"
       /\ (pc = "walk" /\ pc' # pc) => pc' \in {"display", "cut"}]_vars

\* a process the walk resolved is shown with '?': it exited before its header
C4_Witness == /\ cmd = "whatps" /\ pc = "cmdline" /\ Len(out) >= 3
              /\ ShownState(Last(out)) = "?"

\* the status text lacks what the parser expects
Malformed(f, p) == \/ ~f.ok
                   \/ \E i \in 1..Len(f.data) : f.data[i] = BadByte
                   \/ ~\E i \in 1..Len(f.data) : f.data[i] = "("
                   \/ ~\E i \in 1..Len(f.data) : f.data[i] = ")"
                   \/ f.data \in CutLines(p) \cup BadPpidLines(p)

\* C5 as stated: read_pid returns the unavailable result, and the invocation
\* goes on, when the status file is unreadable or not text, has no parenthesis
\* pair, no state field, or a parent id that is missing or no unsigned integer.
C5_Unavailable == (pc # "lookup" /\ Malformed(rawfile, pid)) => (pc = "done" /\ stat.tag = "None")

\* C6: cmdline_to_stdout ends the invocation whenever the command-line file
\* cannot be read, from args and from whatps, and nothing else turns a missing
\* file into a hard failure: a lookup of a missing status file goes on.
C6_HardOnlyCmdline ==
    [][/\ (pc = "cmdline" /\ ~Alive(procs, Target)) => (pc' = "panic" /\ fault' = MsgExist)
       /\ (pc = "walk" /\ pid # 1 /\ ~Alive(procs, pid)) => pc' \in {"display", "cut"}
       /\ (pc = "display" /\ idx <= Len(pids) /\ ~Alive(procs, pids[Len(pids) + 1 - idx]))
              => pc' = "cmdline"
       /\ (pc # "panic" /\ pc' = "panic") =>
              \/ pc = "main" /\ fault' = MsgPid
              \/ pc = "cmdline" /\ fault' = MsgExist /\ ~Alive(procs, Target)
              \/ pc = "cmdline" /\ fault' = MsgSlice /\ Alive(procs, Target)]_vars

\* whatps: a lookup failed, its header was printed, and reading the command
\* line of the same pid ended the invocation
C6_Witness == /\ cmd = "whatps" /\ pc = "panic" /\ fault = MsgExist
              /\ stat.tag = "None" /\ Len(out) = 1

\* C7: for a status text pid (comm) state ppid ..., comm holding spaces and
\* parentheses, read_pid yields comm verbatim, the first character of the
\* state field and the parent id as a number.
C7_Fields ==
    pc # "lookup" =>
        /\ \A c \in SeqsUpTo(CommBytes, MaxCommLen) : \A st \in StateFields :
           \A v \in PpidValues : \A r \in Rests :
               rawfile = File(Line(pid, c, st, Digits(v), r))
                   => (pc = "done" /\ stat = SomeStat(c, pid, v, st[1]))
        /\ rawfile = File(Example1)
               => (pc = "done" /\ stat = SomeStat(<<"m", "y", " ", "p", "r", "o", "c">>, pid, 456, "S"))
        /\ rawfile = File(Example2)
               => (pc = "done" /\ stat = SomeStat(<<"a", "(", "b", ")">>, pid, 1, "R"))

\* "5 (a(b)) R 1 ..." has been parsed
C7_Witness == pc = "done" /\ pid = 5 /\ rawfile = File(Example2)

RECURSIVE Encode(_)
\* an argument list as the kernel lays it out: each argument, then a NUL
Encode(args) == IF Len(args) = 0 THEN <<>> ELSE args[1] \o <<NUL>> \o Encode(Tail(args))

RECURSIVE AfterFirst(_)
\* the separator and the argument, for every argument of the list
AfterFirst(args) == IF Len(args) = 0 THEN <<>>
                    ELSE separator \o args[1] \o AfterFirst(Tail(args))

\* a0, then the separator and ai for every later argument, then a newline
RenderArgs(args) == args[1] \o AfterFirst(Tail(args)) \o <<"\n">>

\* argument lists a0..an, n >= 0, of non-NUL bytes
ArgLists == SeqsUpTo(SeqsUpTo({"a", BadByte}, MaxArgLen), MaxArgs) \ {<<>>}

\* C8: for every argument list encoded NUL-separated and NUL-terminated,
\* cmdline_to_stdout writes a0, then the separator and ai for each later
\* argument, then one newline, and nothing else.
C8_RoundTrip ==
    (cmd = "args" /\ pc \in {"done", "panic"} /\ Alive(procs, pid)) =>
        \A args \in ArgLists :
            procs[pid].cmdline = Encode(args)
                => (pc = "done" /\ Len(out) = 1 /\ out[1].data = RenderArgs(args))

\* args has printed the three arguments "a", "" and a non-text byte
C8_Witness == /\ cmd = "args" /\ pc = "done" /\ pid = 1
              /\ procs[1].cmdline = <<"a", NUL, NUL, BadByte, NUL>>

RECURSIVE SpaceJoined(_)
\* the tokens with one space between neighbours
SpaceJoined(toks) == IF Len(toks) = 0 THEN <<>>
                     ELSE IF Len(toks) = 1 THEN toks[1]
                     ELSE toks[1] \o <<" ">> \o SpaceJoined(Tail(toks))

\* token lists without a space in any token
TokenLists == SeqsUpTo(SeqsUpTo({"a", "-"}, MaxTokenLen), MaxTokens)

\* C9: prettify never fails; its result is the input with every single space
\* replaced by the continuation separator (empty tokens kept), and equals
\* format_arglist of the tokens the input is the space-joining of.
C9_Prettify ==
    /\ pc = "panic" => \E i \in 1..Len(stdin) : stdin[i] = BadByte
    /\ pc = "done" =>
           /\ Len(out) = 1
           /\ out[1].data = SubstAll(stdin, " ", separator) \o <<"\n">>
           /\ \A toks \in TokenLists :
                  SpaceJoined(toks) = stdin => out[1].data = format_arglist(toks) \o <<"\n">>

\* "a  -": two consecutive spaces, the empty token between them kept
C9_Witness == pc = "done" /\ stdin = <<"a", " ", " ", "-">>

\* C10: of the readable command-line files, cmdline_to_stdout fails exactly
\* on the empty one; any other has its last byte dropped, NUL or not, and is
\* printed; "need to have some argument" never happens; whatps fails at the
\* first displayed element whose command line is empty, after its header.
C10_EmptyCmdline ==
    /\ [][(pc = "cmdline" /\ Alive(procs, Target)) =>
              LET c == procs[Target].cmdline
              IN /\ c = <<>> => (pc' = "panic" /\ fault' = MsgSlice /\ out' = out)
                 /\ c # <<>> => /\ pc' # "panic"
                                /\ Len(out') = Len(out) + 1
                                /\ Last(out').data = ArgListText(c)]_vars
    /\ [](fault # MsgArg)
    /\ []((cmd = "whatps" /\ pc = "panic" /\ fault = MsgSlice) =>
              LET p == pids[Len(pids) + 1 - idx]
              IN /\ out # <<>>
                 /\ IsHeader(Last(out), p)
                 /\ Alive(procs, p) /\ procs[p].cmdline = <<>>
                 /\ \A j \in 1..(idx - 1) :
                        LET q == pids[Len(pids) + 1 - j]
                        IN Alive(procs, q) /\ procs[q].cmdline # <<>>)

\* whatps printed one element in full and failed at the second, a zombie
C10_Witness == cmd = "whatps" /\ pc = "panic" /\ fault = MsgSlice /\ Len(out) = 3

====
